---- MODULE Spec2Model ----
(***************************************************************************)
(* Model of examples/mnist/keras/mnist_tf_ds.py: the launcher block        *)
(* (__main__), the worker entry point main_fun with its record parser      *)
(* parse_tfos, and the shared file system the workers write to.            *)
(***************************************************************************)
EXTENDS Integers, Sequences, FiniteSets, TLC

\* ---------------------------------------------------------------- bounds
MaxWorkers == 2        \* largest --cluster_size drawn
MaxClock == 2          \* seconds the wall clock may advance during export
MaxImages == 6         \* number of distinct image patterns fed to parse_tfos

\* ------------------------------------------------------ program constants
TrainRecords == 60000  \* steps_per_epoch = 60000 / GLOBAL_BATCH_SIZE
ImageSide == 28        \* tf.reshape(image, (28, 28, 1))
NumClasses == 10       \* "label": FixedLenFeature(10, int64)
PixelScale == 255      \* image / 255
DefaultBatchSize == 64
DefaultEpochs == 3
CkptDigits == 4        \* "/weights-{epoch:04d}"

W == 1..MaxWorkers

\* ------------------------------------------------------------ arithmetic
RECURSIVE GCD(_, _)
GCD(a, b) == IF b = 0 THEN a ELSE GCD(b, a % b)

\* Python 3 true division (from __future__ import division) of two
\* positive ints, kept exact as a fraction in lowest terms.
TrueDiv(a, b) == [num |-> a \div GCD(a, b), den |-> b \div GCD(a, b)]

CeilDiv(a, b) == (a + b - 1) \div b

\* ------------------------------------------------------------- launcher
\* executors = sc._conf.get("spark.executor.instances")
\* num_executors = int(executors) if executors is not None else 1
\* conf is <<>> when the property is unset, <<n>> when set to n.
NumExecutors(conf) == IF conf = <<>> THEN 1 ELSE conf[1]

\* choices=["tfos", "tfds"]
DataFormatChoices == {"tfos", "tfds"}

NoArgs == [batch_size |-> 0, cluster_size |-> 0, data_format |-> "unset", epochs |-> 0]

\* parser.add_argument(...) x 9 and parser.parse_args(): an absent flag
\* (<<>>) takes its default; a --data_format outside the choices makes
\* argparse exit with a usage error.
ParseArgs(av, numExecutors) ==
    IF av.data_format # <<>> /\ av.data_format[1] \notin DataFormatChoices
    THEN [ok |-> FALSE, args |-> NoArgs]
    ELSE [ok |-> TRUE,
          args |-> [batch_size   |-> IF av.batch_size = <<>> THEN DefaultBatchSize
                                     ELSE av.batch_size[1],
                    cluster_size |-> IF av.cluster_size = <<>> THEN numExecutors
                                     ELSE av.cluster_size[1],
                    data_format  |-> IF av.data_format = <<>> THEN "tfos"
                                     ELSE av.data_format[1],
                    epochs       |-> IF av.epochs = <<>> THEN DefaultEpochs
                                     ELSE av.epochs[1]]]

RunRequestWithPs(a) == [num_executors |-> a.cluster_size, num_ps |-> 1]

\* TFCluster.run(sc, main_fun, args, args.cluster_size, num_ps=0, ...)
RunRequest(a) == [num_executors |-> a.cluster_size, num_ps |-> 0]

NoCluster == [started |-> FALSE, num_ps |-> 0, workers |-> {}]

\* The cluster launcher: of num_executors nodes, num_ps are parameter
\* servers and the others are workers that each run the callback.
TFClusterRun(req) ==
    [started |-> TRUE, num_ps |-> req.num_ps,
     workers |-> 1..(req.num_executors - req.num_ps)]

\* --------------------------------------------------------------- main_fun
\* The statements of main_fun in program order; "done" is the return.
StepAfterExportFirst(s) ==
    CASE s = "pipeline"   -> "batch"
      [] s = "batch"      -> "makedirs"
      [] s = "makedirs"   -> "model"
      [] s = "model"      -> "export_dir"
      [] s = "export_dir" -> "save"
      [] s = "save"       -> "fit"
      [] s = "fit"        -> "done"
      [] OTHER            -> "done"

StepAfter(s) ==
    CASE s = "pipeline"   -> "batch"
      [] s = "batch"      -> "makedirs"
      [] s = "makedirs"   -> "model"
      [] s = "model"      -> "fit"
      [] s = "fit"        -> "export_dir"
      [] s = "export_dir" -> "save"
      [] s = "save"       -> "done"
      [] OTHER            -> "done"

OnExceptionSwallow(s) == StepAfter(s)

\* main_fun has no try/except: an exception raised in step s leaves the
\* function at once.
OnException(s) == "failed"

ChooseParserAlwaysTfos(fmt) == "parse_tfos"

\* if args.data_format == 'tfds': ds.map(parse_tfds) else: ds.map(parse_tfos)
ChooseParser(fmt) == IF fmt = "tfds" THEN "parse_tfds" ELSE "parse_tfos"

RepeatCountOnce(a) == 1

\* ds.repeat(args.epochs)
RepeatCount(a) == a.epochs

GlobalBatchSizeUnscaled(a) == a.batch_size

\* GLOBAL_BATCH_SIZE = BATCH_SIZE * NUM_WORKERS
GlobalBatchSize(a) == a.batch_size * a.cluster_size

\* steps_per_epoch = 60000 / GLOBAL_BATCH_SIZE   (true division)
StepsPerEpoch(g) == TrueDiv(TrainRecords, g)

\* Decimal digits of n >= 0, most significant first.
RECURSIVE Digits(_)
Digits(n) == IF n < 10 THEN <<n>> ELSE Append(Digits(n \div 10), n % 10)

RECURSIVE ZeroPad(_, _)
ZeroPad(ds, width) == IF Len(ds) >= width THEN ds ELSE ZeroPad(<<0>> \o ds, width)

FilepathNoEpoch(epoch) == ZeroPad(<<>>, CkptDigits)

\* filepath = args.model_dir + "/weights-{epoch:04d}": the part of the path
\* that varies, i.e. the digits "{epoch:04d}" formats.
Filepath(epoch) == ZeroPad(Digits(epoch), CkptDigits)

NumBatchesDropRemainder(records, n) == records \div n

\* train_datasets_unbatched.batch(n): drop_remainder is left False, so a
\* last, shorter batch is produced.
NumBatches(records, n) == CeilDiv(records, n)

\* fit(steps_per_epoch=...): the steps one epoch runs.  A whole number runs
\* as given; for a fractional one the source does not say which way the
\* training loop rounds, so both are possible (rounding).
StepsToRun(spe, rnd) ==
    IF spe.den = 1 THEN spe.num
    ELSE IF rnd = "floor" THEN spe.num \div spe.den
    ELSE spe.num \div spe.den + 1

\* -------------------------------------------------------------- parse_tfos
\* tf.reshape(flat, shape): row-major, 0-based indices, shape <<d1,d2,d3>>.
ReshapeColumnMajor(flat, shape) ==
    [r \in 0..(shape[1] - 1) |->
       [c \in 0..(shape[2] - 1) |->
          [ch \in 0..(shape[3] - 1) |->
             flat[(c * shape[1] + r) * shape[3] + ch + 1]]]]

Reshape(flat, shape) ==
    [r \in 0..(shape[1] - 1) |->
       [c \in 0..(shape[2] - 1) |->
          [ch \in 0..(shape[3] - 1) |->
             flat[(r * shape[2] + c) * shape[3] + ch + 1]]]]

\* tf.math.argmax: 0-based index of the largest element, the first on ties.
RECURSIVE ArgMaxFrom(_, _, _)
ArgMaxFrom(xs, i, best) ==
    IF i > Len(xs) THEN best - 1
    ELSE ArgMaxFrom(xs, i + 1, IF xs[i] > xs[best] THEN i ELSE best)

ArgMax(xs) == ArgMaxFrom(xs, 2, 1)

NoParsed == [ok |-> FALSE, image |-> <<>>, label |-> 0]

\* parse_tfos(example_proto): FixedLenFeature rejects a record whose
\* arrays have another length.
parse_tfos(ex) ==
    IF Len(ex.image) # ImageSide * ImageSide * 1 \/ Len(ex.label) # NumClasses
    THEN NoParsed
    ELSE [ok    |-> TRUE,
          image |-> Reshape([i \in 1..Len(ex.image) |-> TrueDiv(ex.image[i], PixelScale)],
                            <<ImageSide, ImageSide, 1>>),
          label |-> ArgMax(ex.label)]

\* ------------------------------------------------------------------ state
VARIABLES
    mainPc,        \* position of the __main__ block
    conf,          \* spark.executor.instances: <<>> or <<n>>
    argv,          \* the command line: each flag <<>> (absent) or <<value>>
    args,          \* parser.parse_args()
    cluster,       \* what TFCluster.run returned
    invoked,       \* per executor: number of calls of main_fun
    recs,          \* per executor: records of its part files (one pass)
    rounding,      \* how fit treats a fractional steps_per_epoch
    pc,            \* per worker: the statement of main_fun it is about to run
    trace,         \* per worker: the steps of main_fun that have completed
    err,           \* per worker: the exception that left main_fun
    mapFn,         \* per worker: the parser given to ds.map
    repeats,       \* per worker: the count given to ds.repeat
    batchSize,     \* per worker: GLOBAL_BATCH_SIZE given to batch()
    stepsPerEpoch, \* per worker: steps_per_epoch, a fraction
    model,         \* per worker: multi_worker_model
    epochDone,     \* per worker: epochs fit has completed
    stepsDone,     \* per worker: training steps fit has completed
    parsedBy,      \* per worker: the parsers its records went through
    exportPath,    \* per worker: export_dir (its timestamp), -1 before
    modelDir,      \* args.model_dir exists
    ckpt,          \* files of model_dir: <<path digits, epoch of the weights>>
    exports,       \* saved models: <<timestamp directory, worker>>
    now,           \* int(time.time()), counted from the first export
    example,       \* the serialized record handed to parse_tfos
    parsed         \* what parse_tfos returned for it

launcherVars == <<mainPc, conf, argv, args, cluster, invoked, recs, rounding>>
pipelineVars == <<mapFn, repeats, batchSize, stepsPerEpoch, model>>
fitVars == <<epochDone, stepsDone, parsedBy>>
fsVars == <<modelDir, ckpt, exports, now, exportPath>>
parseVars == <<example, parsed>>
vars == <<mainPc, conf, argv, args, cluster, invoked, recs, rounding, pc, trace,
          err, mapFn, repeats, batchSize, stepsPerEpoch, model, epochDone,
          stepsDone, parsedBy, exportPath, modelDir, ckpt, exports, now,
          example, parsed>>

NoErr == [step |-> "none", kind |-> "none"]
NoExample == [image |-> <<>>, label |-> <<>>]

\* ----------------------------------------------------------------- inputs
BatchFlags == {<<64>>, <<7500>>, <<10000>>}
EpochFlags == {<<1>>, <<2>>}
FormatFlags == {<<>>, <<"tfos">>, <<"tfds">>, <<"png">>}

\* Command lines with every flag but --data_format left to its default, and
\* command lines that set the training flags.
Inputs ==
    { [conf |-> c,
       argv |-> [batch_size |-> <<>>, cluster_size |-> <<>>, data_format |-> f,
                 epochs |-> <<>>]] : c \in {<<>>, <<MaxWorkers>>}, f \in FormatFlags }
    \cup
    { [conf |-> <<>>,
       argv |-> [batch_size |-> b, cluster_size |-> <<n>>, data_format |-> <<"tfos">>,
                 epochs |-> e]] : b \in BatchFlags, n \in W, e \in EpochFlags }

\* How the part files spread TrainRecords records over n executors: evenly,
\* or with the first executor short of (and the last one ahead by) d records.
Skews == {0, 8000}
Shards(n) ==
    { [w \in W |-> IF w > n THEN 0
                   ELSE IF n = 1 THEN TrainRecords
                   ELSE IF w = 1 THEN TrainRecords \div n - d
                   ELSE IF w = n THEN TrainRecords \div n + d
                   ELSE TrainRecords \div n] : d \in Skews }

ClusterSizeOf(in) ==
    LET r == ParseArgs(in.argv, NumExecutors(in.conf))
    IN  IF r.ok THEN r.args.cluster_size ELSE 1

Roundings(in) ==
    LET r == ParseArgs(in.argv, NumExecutors(in.conf))
    IN  IF r.ok /\ StepsPerEpoch(GlobalBatchSize(r.args)).den # 1
        THEN {"floor", "ceil"} ELSE {"floor"}

InitWorkers ==
    /\ invoked = [w \in W |-> 0]
    /\ pc = [w \in W |-> "idle"]
    /\ trace = [w \in W |-> <<>>]
    /\ err = [w \in W |-> NoErr]
    /\ mapFn = [w \in W |-> "none"]
    /\ repeats = [w \in W |-> 0]
    /\ batchSize = [w \in W |-> 0]
    /\ stepsPerEpoch = [w \in W |-> [num |-> 0, den |-> 1]]
    /\ model = [w \in W |-> "none"]
    /\ epochDone = [w \in W |-> 0]
    /\ stepsDone = [w \in W |-> 0]
    /\ parsedBy = [w \in W |-> {}]
    /\ exportPath = [w \in W |-> -1]
    /\ modelDir = FALSE
    /\ ckpt = {}
    /\ exports = {}
    /\ now = 0

Init ==
    /\ mainPc = "parse_args"
    /\ \E in \in Inputs :
         /\ conf = in.conf
         /\ argv = in.argv
         /\ recs \in Shards(ClusterSizeOf(in))
         /\ rounding \in Roundings(in)
    /\ args = NoArgs
    /\ cluster = NoCluster
    /\ InitWorkers
    /\ example = NoExample
    /\ parsed = NoParsed

\* --------------------------------------------------------- launcher steps
\* args = parser.parse_args()
ParseArgsStep ==
    /\ mainPc = "parse_args"
    /\ LET r == ParseArgs(argv, NumExecutors(conf))
       IN  IF r.ok
           THEN /\ args' = r.args
                /\ mainPc' = "run"
           ELSE /\ args' = args
                /\ mainPc' = "usage_error"
    /\ UNCHANGED <<conf, argv, cluster, invoked, recs, rounding, pc, trace, err>>
    /\ UNCHANGED <<pipelineVars, fitVars, fsVars, parseVars>>

\* cluster = TFCluster.run(...)
Run ==
    /\ mainPc = "run"
    /\ cluster' = TFClusterRun(RunRequest(args))
    /\ mainPc' = "shutdown"
    /\ UNCHANGED <<conf, argv, args, invoked, recs, rounding, pc, trace, err>>
    /\ UNCHANGED <<pipelineVars, fitVars, fsVars, parseVars>>

\* An executor of the started cluster calls main_fun(args, ctx), once.
Invoke(w) ==
    /\ cluster.started
    /\ w \in cluster.workers
    /\ invoked[w] = 0
    /\ invoked' = [invoked EXCEPT ![w] = 1]
    /\ pc' = [pc EXCEPT ![w] = "pipeline"]
    /\ UNCHANGED <<mainPc, conf, argv, args, cluster, recs, rounding, trace, err>>
    /\ UNCHANGED <<pipelineVars, fitVars, fsVars, parseVars>>

\* cluster.shutdown() is called ...
Shutdown ==
    /\ mainPc = "shutdown"
    /\ mainPc' = "shutdown_wait"
    /\ UNCHANGED <<conf, argv, args, cluster, invoked, recs, rounding, pc, trace, err>>
    /\ UNCHANGED <<pipelineVars, fitVars, fsVars, parseVars>>

\* ... and returns when every worker has left main_fun.
ShutdownDone ==
    /\ mainPc = "shutdown_wait"
    /\ \A w \in cluster.workers : pc[w] \in {"done", "failed"}
    /\ mainPc' = "done"
    /\ UNCHANGED <<conf, argv, args, cluster, invoked, recs, rounding, pc, trace, err>>
    /\ UNCHANGED <<pipelineVars, fitVars, fsVars, parseVars>>

\* --------------------------------------------------------- main_fun steps
\* Step s of worker w returns normally.
Advance(w, s) ==
    /\ pc' = [pc EXCEPT ![w] = StepAfter(s)]
    /\ trace' = [trace EXCEPT ![w] = Append(@, s)]
    /\ err' = err

\* Step s of worker w raises.
Raise(w, s, kind) ==
    /\ pc' = [pc EXCEPT ![w] = OnException(s)]
    /\ err' = [err EXCEPT ![w] = [step |-> s, kind |-> kind]]
    /\ trace' = trace

\* list_files(...).repeat(args.epochs).shuffle(...).interleave(...).map(parser)
Pipeline(w) ==
    /\ pc[w] = "pipeline"
    /\ \E ok \in BOOLEAN :
         IF ok
         THEN /\ repeats' = [repeats EXCEPT ![w] = RepeatCount(args)]
              /\ mapFn' = [mapFn EXCEPT ![w] = ChooseParser(args.data_format)]
              /\ Advance(w, "pipeline")
         ELSE /\ Raise(w, "pipeline", "NotFound")
              /\ UNCHANGED <<repeats, mapFn>>
    /\ UNCHANGED <<batchSize, stepsPerEpoch, model>>
    /\ UNCHANGED <<launcherVars, fitVars, fsVars, parseVars>>

\* train_datasets = train_datasets_unbatched.batch(GLOBAL_BATCH_SIZE)
Batch(w) ==
    /\ pc[w] = "batch"
    /\ batchSize' = [batchSize EXCEPT ![w] = GlobalBatchSize(args)]
    /\ Advance(w, "batch")
    /\ UNCHANGED <<mapFn, repeats, stepsPerEpoch, model>>
    /\ UNCHANGED <<launcherVars, fitVars, fsVars, parseVars>>

\* tf.io.gfile.makedirs(args.model_dir); filepath; callbacks; steps_per_epoch
Makedirs(w) ==
    /\ pc[w] = "makedirs"
    /\ \E ok \in BOOLEAN :
         IF ok
         THEN /\ modelDir' = TRUE
              /\ stepsPerEpoch' = [stepsPerEpoch EXCEPT ![w] = StepsPerEpoch(batchSize[w])]
              /\ Advance(w, "makedirs")
         ELSE /\ Raise(w, "makedirs", "IOError")
              /\ UNCHANGED <<modelDir, stepsPerEpoch>>
    /\ UNCHANGED <<mapFn, repeats, batchSize, model>>
    /\ UNCHANGED <<ckpt, exports, now, exportPath>>
    /\ UNCHANGED <<launcherVars, fitVars, parseVars>>

\* with strategy.scope(): multi_worker_model = build_and_compile_cnn_model()
BuildModel(w) ==
    /\ pc[w] = "model"
    /\ model' = [model EXCEPT ![w] = "compiled_in_scope"]
    /\ Advance(w, "model")
    /\ UNCHANGED <<mapFn, repeats, batchSize, stepsPerEpoch>>
    /\ UNCHANGED <<launcherVars, fitVars, fsVars, parseVars>>

\* The strategy gives each of the n workers its share of a global batch.
PerReplicaBatch(g, n) == g \div n

\* The ModelCheckpoint callback writes the weights of epoch e.
WriteCheckpoint(files, e) ==
    {f \in files : f[1] # Filepath(e)} \cup {<<Filepath(e), e>>}

\* multi_worker_model.fit(x=train_datasets, epochs=args.epochs,
\*                        steps_per_epoch=steps_per_epoch, callbacks=callbacks):
\* one epoch of it.  The input is the worker's records, repeated and cut
\* into batches; an epoch that finds fewer batches left than it has steps
\* ends in OutOfRange; a completed epoch writes its checkpoint, and the last
\* one makes fit return.
FitEpoch(w) ==
    /\ pc[w] = "fit"
    /\ LET b == PerReplicaBatch(batchSize[w], Cardinality(cluster.workers))
           avail == NumBatches(repeats[w] * recs[w], b) - stepsDone[w]
           steps == StepsToRun(stepsPerEpoch[w], rounding)
           e == epochDone[w] + 1
       IN  \E ok \in BOOLEAN :
             IF ~ok
             THEN /\ Raise(w, "fit", "InvalidArgument")
                  /\ UNCHANGED <<epochDone, stepsDone, parsedBy, ckpt, model>>
             ELSE IF avail < steps
             THEN /\ stepsDone' = [stepsDone EXCEPT ![w] = @ + avail]
                  /\ parsedBy' = [parsedBy EXCEPT ![w] =
                                    IF avail > 0 THEN @ \cup {mapFn[w]} ELSE @]
                  /\ Raise(w, "fit", "OutOfRange")
                  /\ UNCHANGED <<epochDone, ckpt, model>>
             ELSE /\ stepsDone' = [stepsDone EXCEPT ![w] = @ + steps]
                  /\ parsedBy' = [parsedBy EXCEPT ![w] = @ \cup {mapFn[w]}]
                  /\ epochDone' = [epochDone EXCEPT ![w] = e]
                  /\ ckpt' = WriteCheckpoint(ckpt, e)
                  /\ IF e >= args.epochs
                     THEN /\ Advance(w, "fit")
                          /\ model' = [model EXCEPT ![w] = "trained"]
                     ELSE UNCHANGED <<pc, trace, err, model>>
    /\ UNCHANGED <<mapFn, repeats, batchSize, stepsPerEpoch>>
    /\ UNCHANGED <<modelDir, exports, now, exportPath>>
    /\ UNCHANGED <<launcherVars, parseVars>>

\* export_dir = export_lib.get_timestamped_export_dir(args.export_dir):
\* export_dir/<int(time.time())> if no such directory exists yet (it is not
\* created here) ...
ExportDir(w) ==
    /\ pc[w] = "export_dir"
    /\ now \notin {x[1] : x \in exports}
    /\ exportPath' = [exportPath EXCEPT ![w] = now]
    /\ Advance(w, "export_dir")
    /\ UNCHANGED <<modelDir, ckpt, exports, now>>
    /\ UNCHANGED <<launcherVars, pipelineVars, fitVars, parseVars>>

\* ... otherwise it sleeps a second and tries again.
ExportDirRetry(w) ==
    /\ pc[w] = "export_dir"
    /\ now \in {x[1] : x \in exports}
    /\ now < MaxClock
    /\ now' = now + 1
    /\ UNCHANGED <<modelDir, ckpt, exports, exportPath, pc, trace, err>>
    /\ UNCHANGED <<launcherVars, pipelineVars, fitVars, parseVars>>

\* multi_worker_model.save(export_dir, save_format='tf')
Save(w) ==
    /\ pc[w] = "save"
    /\ \E ok \in BOOLEAN :
         IF ok
         THEN /\ exports' = exports \cup {<<exportPath[w], w>>}
              /\ Advance(w, "save")
         ELSE /\ Raise(w, "save", "IOError")
              /\ exports' = exports
    /\ UNCHANGED <<modelDir, ckpt, now, exportPath>>
    /\ UNCHANGED <<launcherVars, pipelineVars, fitVars, parseVars>>

\* A second of wall-clock time passes.  The clock is read only by the export
\* step, so it is counted from the first export on.
Tick ==
    /\ now < MaxClock
    /\ \E w \in cluster.workers : exportPath[w] # -1
    /\ \E w \in cluster.workers : pc[w] \notin {"done", "failed"}
    /\ now' = now + 1
    /\ UNCHANGED <<modelDir, ckpt, exports, exportPath, pc, trace, err>>
    /\ UNCHANGED <<launcherVars, pipelineVars, fitVars, parseVars>>

Next ==
    \/ ParseArgsStep
    \/ Run
    \/ Shutdown
    \/ ShutdownDone
    \/ Tick
    \/ \E w \in W : Invoke(w)
    \/ \E w \in W : Pipeline(w)
    \/ \E w \in W : Batch(w)
    \/ \E w \in W : Makedirs(w)
    \/ \E w \in W : BuildModel(w)
    \/ \E w \in W : FitEpoch(w)
    \/ \E w \in W : ExportDir(w)
    \/ \E w \in W : ExportDirRetry(w)
    \/ \E w \in W : Save(w)

Spec == Init /\ [][Next]_vars

\* ------------------------------------------------ parse_tfos on its own
\* Records as mnist_data_setup.py writes them: a flattened image of ints
\* and a one-hot label; and records that are not of that form.
Image(k) == [i \in 1..(ImageSide * ImageSide) |-> (i * (2 * k + 1) + 7 * k) % (PixelScale + 1)]
OneHot(d) == [i \in 1..NumClasses |-> IF i = d + 1 THEN 1 ELSE 0]
Labels == {OneHot(d) : d \in 0..(NumClasses - 1)}
           \cup {[i \in 1..NumClasses |-> 0], [i \in 1..NumClasses |-> IF i \in {3, 7} THEN 1 ELSE 0]}
Examples ==
    {[image |-> Image(k), label |-> l] : k \in 1..MaxImages, l \in Labels}
    \cup {[image |-> SubSeq(Image(1), 1, ImageSide * ImageSide - 1), label |-> l] : l \in Labels}

InitParse ==
    /\ mainPc = "parse_record"
    /\ conf = <<>>
    /\ argv = [batch_size |-> <<>>, cluster_size |-> <<>>, data_format |-> <<>>, epochs |-> <<>>]
    /\ recs = [w \in W |-> 0]
    /\ rounding = "floor"
    /\ args = NoArgs
    /\ cluster = NoCluster
    /\ InitWorkers
    /\ example \in Examples
    /\ parsed = NoParsed

\* ds.map(parse_tfos) applies the parser to a record.
ParseRecord ==
    /\ mainPc = "parse_record"
    /\ parsed' = parse_tfos(example)
    /\ mainPc' = "parsed"
    /\ UNCHANGED <<conf, argv, args, cluster, invoked, recs, rounding, pc, trace, err>>
    /\ UNCHANGED <<pipelineVars, fitVars, fsVars, example>>

NextParse == ParseRecord

SpecParse == InitParse /\ [][NextParse]_vars

\* ================================================================ claims
Workers == cluster.workers
IsPrefix(s, t) == Len(s) <= Len(t) /\ s = SubSeq(t, 1, Len(s))
Completed(w, n) == Len(trace[w]) >= n
AllDone == cluster.started /\ Workers # {} /\ \A w \in Workers : pc[w] = "done"

MainFunOrder == <<"pipeline", "batch", "makedirs", "model", "fit", "export_dir", "save">>

\* C1: in every invocation of main_fun the steps that have completed are an
\* initial part of the fixed order pipeline, batch, makedirs, model (built
\* in the strategy's scope), fit, export; no step occurs twice; training
\* only starts on a built pipeline and a compiled model; an export
\* directory is taken, and a model saved, only by a worker whose fit has
\* returned after all args.epochs epochs.
C1_FixedOrder ==
    \A w \in W :
      /\ IsPrefix(trace[w], MainFunOrder)
      /\ (stepsDone[w] > 0 => Completed(w, 4) /\ model[w] # "none" /\ mapFn[w] # "none")
      /\ (exportPath[w] # -1 => model[w] = "trained" /\ epochDone[w] = args.epochs)
      /\ \A x \in exports : x[2] = w => model[w] = "trained" /\ epochDone[w] = args.epochs

C1_Witness == \E w \in W : pc[w] = "done" /\ trace[w] = MainFunOrder /\ args.epochs > 1

\* C2: the started cluster has zero parameter servers and exactly
\* args.cluster_size workers; main_fun is invoked at most once on a worker,
\* only on workers of the cluster, and on every one of them by the time the
\* launcher is through; shutdown is requested only on a started cluster.
C2_Launcher ==
    /\ cluster.started =>
         /\ cluster.num_ps = 0
         /\ cluster.workers = 1..args.cluster_size
         /\ Cardinality(cluster.workers) = args.cluster_size
    /\ \A w \in W :
         /\ invoked[w] <= 1
         /\ (invoked[w] = 1 => cluster.started /\ w \in 1..args.cluster_size)
         /\ (pc[w] # "idle" <=> invoked[w] = 1)
    /\ (mainPc \in {"shutdown_wait", "done"} => cluster.started)
    /\ (mainPc = "done" => \A w \in 1..args.cluster_size : invoked[w] = 1)

C2_Witness ==
    /\ mainPc = "done"
    /\ args.cluster_size > 1
    /\ \A w \in 1..args.cluster_size : invoked[w] = 1

StepsBefore(s) ==
    LET i == CHOOSE k \in 1..Len(MainFunOrder) : MainFunOrder[k] = s
    IN  SubSeq(MainFunOrder, 1, i - 1)

\* C3: a worker in which a step has raised has left main_fun with that
\* exception: the steps it completed are exactly those before the failing
\* one (the step was not retried, no later step ran), and it has saved no
\* model; one that failed before the export took no export directory.
C3_NoRecovery ==
    \A w \in W :
      /\ (pc[w] = "failed" <=> err[w] # NoErr)
      /\ err[w] # NoErr =>
           /\ trace[w] = StepsBefore(err[w].step)
           /\ \A x \in exports : x[2] # w
           /\ (err[w].step \in {"pipeline", "makedirs", "fit"} => exportPath[w] = -1)

C3_Witness ==
    \E w, v \in W :
      /\ err[w].step = "fit" /\ pc[w] = "failed"
      /\ pc[v] = "done"

Fewest(v) == v \in Workers /\ \A w \in Workers : recs[v] <= recs[w]
Uneven == \E v, w \in Workers : recs[v] # recs[w]
BatchesOf(w) == (args.epochs * recs[w] + args.batch_size - 1) \div args.batch_size
ScheduledPerEpoch ==
    StepsToRun(TrueDiv(TrainRecords, args.batch_size * args.cluster_size), rounding)

C5_SingleExportDir ==
    AllDone => modelDir /\ Cardinality({x[1] : x \in exports}) = 1

IsOneHot(l) ==
    /\ Cardinality({i \in 1..Len(l) : l[i] = 1}) = 1
    /\ \A i \in 1..Len(l) : l[i] \in {0, 1}

\* C6: for a record with a 784-element image and a 10-element one-hot
\* label, parse_tfos returns an image indexed 0..27 x 0..27 x 0..0 whose
\* element (r, c, 0) is input element 28*r + c (0-based) over 255, and a
\* label in 0..9 that is the position of the 1.
C6_ParseTfos ==
    (mainPc = "parsed" /\ Len(example.image) = 784 /\ Len(example.label) = 10
       /\ IsOneHot(example.label)) =>
      /\ parsed.ok
      /\ DOMAIN parsed.image = 0..27
      /\ \A r \in 0..27 :
           /\ DOMAIN parsed.image[r] = 0..27
           /\ \A c \in 0..27 :
                /\ DOMAIN parsed.image[r][c] = {0}
                /\ parsed.image[r][c][0].num * 255
                     = example.image[28 * r + c + 1] * parsed.image[r][c][0].den
      /\ parsed.label \in 0..9
      /\ example.label[parsed.label + 1] = 1

C6_Witness ==
    /\ mainPc = "parsed" /\ parsed.ok /\ IsOneHot(example.label)
    /\ parsed.label = 9
    /\ parsed.image[0][1][0] # parsed.image[1][0][0]

\* C7: the accepted data_format is tfos or tfds, tfos when the flag is
\* absent; another value never gets past argument parsing, so no worker
\* runs; every record a worker parses goes through parse_tfds when the
\* format is tfds and through parse_tfos when it is tfos.
C7_ParserByFormat ==
    /\ mainPc \notin {"parse_args", "usage_error"} =>
         /\ args.data_format \in {"tfos", "tfds"}
         /\ args.data_format = IF argv.data_format = <<>> THEN "tfos" ELSE argv.data_format[1]
    /\ (argv.data_format # <<>> /\ argv.data_format[1] \notin {"tfos", "tfds"}) =>
         /\ mainPc \in {"parse_args", "usage_error"}
         /\ \A w \in W : invoked[w] = 0
    /\ \A w \in W :
         parsedBy[w] \subseteq {IF args.data_format = "tfds" THEN "parse_tfds" ELSE "parse_tfos"}

C7_Witness == \E w \in W : parsedBy[w] = {"parse_tfds"} /\ pc[w] = "done"

\* C8: the size given to batch() is batch_size times cluster_size, and
\* steps_per_epoch times that size is exactly 60000.
C8_GlobalBatch ==
    \A w \in W :
      /\ Completed(w, 2) => batchSize[w] = args.batch_size * args.cluster_size
      /\ Completed(w, 3) =>
           stepsPerEpoch[w].num * (args.batch_size * args.cluster_size)
             = 60000 * stepsPerEpoch[w].den

C8_Witness ==
    \E w \in W :
      /\ args.batch_size = 64 /\ args.cluster_size = 2
      /\ batchSize[w] = 128
      /\ stepsPerEpoch[w] = [num |-> 1875, den |-> 4]

EvenSplit == \A w \in Workers : recs[w] * args.cluster_size = 60000
Divides == 60000 % (args.batch_size * args.cluster_size) = 0

\* C9: with 60000 records split evenly and a global batch size dividing
\* 60000, the file list is repeated args.epochs times, no worker ever asks
\* for more records than its input holds or runs out of input, and a worker
\* whose fit returned has run epochs * steps_per_epoch steps.
C9_EnoughInput ==
    (cluster.started /\ EvenSplit /\ Divides) =>
      \A w \in Workers :
        /\ err[w].kind # "OutOfRange"
        /\ (Completed(w, 1) => repeats[w] = args.epochs)
        /\ stepsDone[w] * args.batch_size <= args.epochs * recs[w]
        /\ (Completed(w, 3) =>
              /\ stepsPerEpoch[w].den = 1
              /\ stepsPerEpoch[w].num * batchSize[w] <= 60000)
        /\ (Completed(w, 5) =>
              stepsDone[w] = args.epochs * (60000 \div (args.batch_size * args.cluster_size)))

C9_Witness ==
    \E w \in Workers :
      /\ EvenSplit /\ Divides /\ args.epochs > 1 /\ args.cluster_size > 1
      /\ Completed(w, 5)

RECURSIVE DecimalValue(_)
DecimalValue(ds) ==
    IF ds = <<>> THEN 0 ELSE 10 * DecimalValue(SubSeq(ds, 1, Len(ds) - 1)) + ds[Len(ds)]

\* C10: model_dir exists whenever a worker is at, or past, the start of
\* training; every checkpoint file is named by the 4 digits of the epoch
\* whose weights it holds; the checkpoint of every epoch a worker has
\* completed is still there; after a run in which every worker returned
\* there are exactly args.epochs checkpoint files.
C10_Checkpoints ==
    /\ \A w \in W : (pc[w] = "fit" \/ epochDone[w] > 0) => modelDir
    /\ \A f \in ckpt : Len(f[1]) = 4 /\ DecimalValue(f[1]) = f[2]
    /\ \A w \in W : \A e \in 1..epochDone[w] : \E f \in ckpt : f[2] = e
    /\ AllDone => Cardinality(ckpt) = args.epochs

C10_Witness == AllDone /\ args.epochs > 1 /\ args.cluster_size > 1 /\ Cardinality(ckpt) = args.epochs

====
